---- MODULE Spec2Model ----
(***************************************************************************)
(* work_API: an Express HTTP API over two PostgreSQL tables (users,        *)
(* product) with JWT session tokens.  The repository holds several         *)
(* variants of the server:                                                 *)
(*   "app"    src/app.js (both copies in the file behave alike)            *)
(*   "util"   src/unnamed/part_001 (executeQuery helper, classified token  *)
(*            errors, signup without the email column)                     *)
(*   "legacy" src/unnamed/part_000 lines 1-288 (own pool, PATCH route)     *)
(*   "batch"  src/unnamed/part_000 lines 289-638 (adds the bulk routes;    *)
(*            lines 640-872 are the same server without them)              *)
(* Every request handler is one action: the JavaScript handler runs to its *)
(* response between two awaits of other requests only where a claim about  *)
(* interleavings needs it.  The database is modelled by what PostgreSQL    *)
(* does with the statements the handlers send.                             *)
(***************************************************************************)
EXTENDS Integers, Sequences, FiniteSets, TLC

VARIABLES
    variant,          \* which server file is deployed
    nodeEnv,          \* process.env.NODE_ENV
    emailColumn,      \* whether the users table in the database has an email column
    isDBInitialized,  \* src/db.js:5
    initPending,      \* initDB() of src/db.js:72 has not settled yet
    users,            \* rows of table users
    userSeq,          \* last value of the users.id SERIAL sequence
    product,          \* rows of table product
    productSeq,       \* last value of the product.product_id SERIAL sequence
    checkedOut,       \* clients checked out of the pool and not released
    now,              \* the server clock (CURRENT_TIMESTAMP, jwt clock)
    held,             \* the token the client received last
    last,             \* the request handled last and its response
    txn,              \* the POST /products request that is between two awaits
    pending           \* the PUT and DELETE /product/:id requests between their two statements

vars == <<variant, nodeEnv, emailColumn, isDBInitialized, initPending, users, userSeq,
          product, productSeq, checkedOut, now, held, last, txn, pending>>

----------------------------------------------------------------------------
(* Bounds of the model *)

MaxClock == 1
MaxUserSeq == 2
MaxProductSeq == 2
MaxBatch == 2
MaxClients == 2

(* Program constants *)

POOL_MAX == 5
MIN_PASSWORD_LENGTH == 6
\* expiresIn '24h': one tick of the model clock is the expiry window
JWT_EXPIRY == 1
BCRYPT_ROUNDS == 12

Variants == {"app", "util", "legacy", "batch"}
HasReadinessGate == variant \in {"app", "util"}
JWT_SECRET == "default_jwt_secret"

\* JavaScript undefined / SQL NULL, one per value type
NULLSTR == "<null>"
NULLNUM == 0 - 999

Usernames == {"alice", "bob"}
Passwords == {"secret1", "secret2", "short", "sixsix"}

----------------------------------------------------------------------------
(* Credentials *)

\* bcrypt.hash(password, rounds): a one-way image of the password
bcryptHash(password, rounds) == <<"$2a$", rounds, password>>

\* bcrypt.compare(password, hash)
bcryptCompare(password, hash) == hash[3] = password

\* the HMAC signature jwt.sign computes over the payload
jwtSignature(id, username, exp, secret) == <<secret, id, username, exp>>

NoToken == [id |-> 0, username |-> "", exp |-> 0, sig |-> <<"", 0, "", 0>>]
NoUser == [id |-> 0, username |-> ""]

generateTokenWrongId(user) ==
    [id |-> user.id + 1, username |-> user.username, exp |-> now + JWT_EXPIRY,
     sig |-> jwtSignature(user.id + 1, user.username, now + JWT_EXPIRY, JWT_SECRET)]

generateToken(user) ==
    [id |-> user.id, username |-> user.username, exp |-> now + JWT_EXPIRY,
     sig |-> jwtSignature(user.id, user.username, now + JWT_EXPIRY, JWT_SECRET)]

jwtVerifyNoExpiry(token, secret) ==
    IF token.sig # jwtSignature(token.id, token.username, token.exp, secret)
    THEN "JsonWebTokenError"
    ELSE "ok"

\* jwt.verify(token, secret): the signature first, then the expiry
jwtVerify(token, secret) ==
    IF token.sig # jwtSignature(token.id, token.username, token.exp, secret)
    THEN "JsonWebTokenError"
    ELSE IF now >= token.exp THEN "TokenExpiredError"
    ELSE "ok"

\* what a client can put in the Authorization header: nothing, the token it
\* holds, that token with an edited payload, or one signed with another key
Tampered(t) == [t EXCEPT !.id = t.id + 1]
Forged(t) == [t EXCEPT !.sig = jwtSignature(t.id, t.username, t.exp, "guess")]
PresentedTokens == {NoToken, held, Tampered(held), Forged(held)}

----------------------------------------------------------------------------
(* Responses *)

\* the outcome of a request before any middleware or handler has acted
Base ==
    [status |-> 0, error |-> "", message |-> "", data |-> <<>>, details |-> FALSE,
     users |-> users, userSeq |-> userSeq,
     product |-> product, productSeq |-> productSeq,
     checkedOut |-> checkedOut,
     acquired |-> 0, released |-> 0, queries |-> 0, dbErr |-> "", sql |-> {},
     user |-> NoUser, entered |-> FALSE, token |-> NoToken]

Respond(out, status, error) == [out EXCEPT !.status = status, !.error = error]

\* the message text of the response (modelled for POST /login)
Say(out, message) == [out EXCEPT !.message = message]

Idle ==
    [route |-> "none", token |-> NoToken, id |-> 0, body |-> <<>>,
     status |-> 0, error |-> "", message |-> "", data |-> <<>>, details |-> FALSE,
     user |-> NoUser, entered |-> FALSE,
     acquired |-> 0, released |-> 0, queries |-> 0, dbErr |-> "", sql |-> {}]

\* the request and the response it got, and the effect on the database
Effects(route, tok, id, body, out) ==
    /\ last' = [route |-> route, token |-> tok, id |-> id, body |-> body,
                status |-> out.status, error |-> out.error,
                message |-> out.message, data |-> out.data,
                details |-> out.details,
                user |-> out.user, entered |-> out.entered,
                acquired |-> out.acquired, released |-> out.released,
                queries |-> out.queries, dbErr |-> out.dbErr, sql |-> out.sql]
    /\ users' = out.users
    /\ userSeq' = out.userSeq
    /\ product' = out.product
    /\ productSeq' = out.productSeq
    /\ checkedOut' = out.checkedOut
    /\ held' = IF out.token # NoToken THEN out.token ELSE held
    /\ UNCHANGED <<variant, nodeEnv, emailColumn, isDBInitialized, initPending, now>>

\* a handler that runs from request to response with no other request between
Handle(route, tok, id, body, out) ==
    /\ Effects(route, tok, id, body, out)
    /\ UNCHANGED <<txn, pending>>

NodeEnvs == {"production", "development"}

\* the error-handling middleware at the end of the chain, for an error that
\* is not a CORS, jwt or constraint error.  The batch server registers none:
\* Express's own handler answers with err.status and, outside production,
\* the stack of the error.
errorHandler(out, status) ==
    IF HasReadinessGate
    THEN [Respond(out, 500, "INTERNAL_SERVER_ERROR")
            EXCEPT !.details = (nodeEnv = "development")]
    ELSE IF variant = "legacy"
    THEN [Respond(out, 500, "err.message") EXCEPT !.details = TRUE]
    ELSE [Respond(out, status, "") EXCEPT !.details = (nodeEnv # "production")]

\* a request whose body is not JSON: bodyParser.json() passes its error
\* (status 400) to the error-handling middleware before any route runs
MalformedBody(route) ==
    Handle(route, NoToken, 0, <<>>, errorHandler(Base, 400))

----------------------------------------------------------------------------
(* Middleware *)

\* the 503 of checkDatabaseAvailability carries no error field
checkDatabaseAvailability(out, next) ==
    IF HasReadinessGate /\ ~isDBInitialized
    THEN Respond(out, 503, "")
    ELSE next

authenticateToken(tok, next) ==
    IF tok = NoToken
    THEN Respond(Base, 401, IF HasReadinessGate THEN "MISSING_TOKEN" ELSE "")
    ELSE LET v == jwtVerify(tok, JWT_SECRET) IN
         IF v # "ok"
         THEN Respond(Base, 403,
                      IF ~HasReadinessGate THEN ""
                      ELSE IF variant = "util" /\ v = "TokenExpiredError"
                           THEN "TOKEN_EXPIRED"
                           ELSE "INVALID_TOKEN")
         ELSE [next EXCEPT !.user = [id |-> tok.id, username |-> tok.username]]

----------------------------------------------------------------------------
(* The connection pool and the database driver *)

\* f names the database call of the request that fails for a reason outside
\* the handler (server unreachable, statement timeout): 0 none, 1 the
\* connection, 2 the first statement, 3 the second, ...
ConnectFails(f) == f = 1 \/ checkedOut >= POOL_MAX

\* a handler that has entered its body
Entered == [Base EXCEPT !.entered = TRUE]

\* the handler caught an error of database call `err`
Caught(out, status, error, err) ==
    [out EXCEPT !.status = status, !.error = error, !.dbErr = err]

\* the legacy servers put err.message in the error field of their 500s
Leaked(out, err) ==
    [out EXCEPT !.status = 500, !.error = "err.message", !.details = TRUE,
                !.dbErr = err]

\* one statement on a client that the handler acquires and releases
\* (client.query between getConnection and finally release, executeQuery,
\* or pool.query of the legacy servers)
OneQuery == [Entered EXCEPT !.acquired = 1, !.released = 1, !.queries = 1]

\* the 500 of a handler whose catch block names its own error code (app, util)
\* or puts err.message in the response (legacy, batch)
Failed(out, code, err) ==
    IF HasReadinessGate THEN Caught(out, 500, code, err) ELSE Leaked(out, err)

\* a single-statement read: the part all variants share
ReadFails(f, code) ==
    IF ConnectFails(f) THEN Failed(Entered, code, "connect")
    ELSE Failed(OneQuery, code, "query")

----------------------------------------------------------------------------
(* Startup: initDB of src/db.js *)

\* the flag initDB leaves behind: true after the CREATE TABLE statements,
\* false in its catch block
initFlagAlways(ok) == TRUE
initFlag(ok) == ok

\* initDB() settles: ok says whether its one pool.query, which creates both
\* tables, succeeded
InitDB(ok) ==
    /\ initPending
    /\ initPending' = FALSE
    /\ isDBInitialized' = initFlag(ok)
    /\ last' = [Idle EXCEPT !.route = "initDB", !.queries = 1,
                            !.dbErr = IF ok THEN "" ELSE "query"]
    /\ UNCHANGED <<variant, nodeEnv, emailColumn, users, userSeq, product, productSeq,
                   checkedOut, now, held, txn, pending>>

\* time passes between two requests
Tick ==
    /\ now < MaxClock
    /\ now' = now + 1
    /\ last' = Idle
    /\ UNCHANGED <<variant, nodeEnv, emailColumn, isDBInitialized, initPending, users,
                   userSeq, product, productSeq, checkedOut, held, txn, pending>>

----------------------------------------------------------------------------
(* GET /health *)

getHealth(f) ==
    IF ConnectFails(f) THEN Leaked(Entered, "connect")
    ELSE IF f = 2
    THEN IF variant = "app"
         \* client.query throws before client.release()
         THEN [Leaked(Entered, "query") EXCEPT !.acquired = 1, !.queries = 1,
                                               !.checkedOut = checkedOut + 1]
         ELSE Leaked(OneQuery, "query")
    ELSE Respond(OneQuery, 200, "")

Health(f) ==
    /\ HasReadinessGate
    /\ Handle("GET /health", NoToken, 0, <<>>, getHealth(f))

----------------------------------------------------------------------------
(* POST /signup *)

UserByName(username) == {u \in users : u.username = username}

\* the row as SELECT * returns it
PublicUserWholeRow(u) == u

\* user: { id: user.id, username: user.username, ... } of the response
PublicUser(u) == [id |-> u.id, username |-> u.username]

\* INSERT INTO users ... RETURNING, then the token and the 201
insertUserOverwrite(out, username, hashed, dupStatus, dupError, failStatus) ==
    [out EXCEPT !.status = 201,
                !.users = {u \in users : u.username # username} \cup
                          {[id |-> userSeq + 1, username |-> username,
                            password |-> hashed, created_at |-> now]},
                !.userSeq = userSeq + 1]

\* an INSERT on a table without the UNIQUE constraint on username
insertUserNoUnique(out, username, hashed, dupStatus, dupError, failStatus) ==
    LET row == [id |-> userSeq + 1, username |-> username,
                password |-> hashed, created_at |-> now]
    IN [out EXCEPT !.status = 201,
                   !.users = users \cup {row},
                   !.userSeq = userSeq + 1,
                   !.data = PublicUser(row),
                   !.token = generateToken(row)]

insertUser(out, username, hashed, dupStatus, dupError, failStatus) ==
    IF username = NULLSTR
    THEN \* NOT NULL violation
         [Caught(out, failStatus, "", "23502") EXCEPT !.userSeq = userSeq + 1]
    ELSE IF UserByName(username) # {}
    THEN \* unique_violation; the sequence value is spent
         [Caught(out, dupStatus, dupError, "23505") EXCEPT !.userSeq = userSeq + 1]
    ELSE LET row == [id |-> userSeq + 1, username |-> username,
                     password |-> hashed, created_at |-> now]
         IN [out EXCEPT !.status = 201,
                        !.users = users \cup {row},
                        !.userSeq = userSeq + 1,
                        !.data = PublicUser(row),
                        !.token = generateToken(row)]

weakPasswordNever(password) == FALSE

\* if (password.length < 6)
weakPassword(password) == Len(password) < MIN_PASSWORD_LENGTH

postSignup(username, password, f) ==
    IF HasReadinessGate
    THEN IF username = NULLSTR \/ password = NULLSTR
         THEN Respond(Entered, 400, "MISSING_FIELDS")
         ELSE IF weakPassword(password)
         THEN Respond(Entered, 400, "WEAK_PASSWORD")
         ELSE IF ConnectFails(f)
         THEN Caught(Entered, 500, "SIGNUP_FAILED", "connect")
         ELSE IF f = 2
         THEN Caught(OneQuery, 500, "SIGNUP_FAILED", "query")
         ELSE IF variant = "app" /\ ~emailColumn
         THEN \* column "email" of relation "users" does not exist
              Caught(OneQuery, 500, "SIGNUP_FAILED", "42703")
         ELSE LET r == insertUser(OneQuery, username,
                                  bcryptHash(password, BCRYPT_ROUNDS),
                                  409, "DUPLICATE_USERNAME", 500)
              IN IF r.status = 500 THEN [r EXCEPT !.error = "SIGNUP_FAILED"] ELSE r
    ELSE IF variant = "legacy" /\ (username = NULLSTR \/ password = NULLSTR)
    THEN Respond(Entered, 400, "")
    ELSE IF password = NULLSTR
    THEN \* bcrypt.hash(undefined) throws inside the try
         Leaked(Entered, "")
    ELSE IF f \in {1, 2}
    THEN Leaked(IF f = 1 THEN Entered ELSE OneQuery,
                IF f = 1 THEN "connect" ELSE "query")
    ELSE LET r == insertUser(OneQuery, username, bcryptHash(password, 10),
                             IF variant = "legacy" THEN 409 ELSE 500, "", 500)
         IN IF r.status = 500 THEN Leaked(r, r.dbErr)
            ELSE [r EXCEPT !.data = <<>>]

Signup(username, password, f) ==
    /\ userSeq < MaxUserSeq
    /\ Handle("POST /signup", NoToken, 0,
              [username |-> username, password |-> password],
              checkDatabaseAvailability(Base, postSignup(username, password, f)))

----------------------------------------------------------------------------
(* POST /login *)

verifyPassword(password, user) == bcryptCompare(password, user.password)

\* if (!user) return res.status(401)...
unknownUserRevealed(out) ==
    Say(Respond(out, 404, IF HasReadinessGate THEN "USER_NOT_FOUND" ELSE ""),
        "User not found")

unknownUser(out) ==
    Say(Respond(out, 401, IF HasReadinessGate THEN "INVALID_CREDENTIALS" ELSE ""),
        "Invalid username or password")

\* if (!isValidPassword) return res.status(401)...
wrongPassword(out) ==
    Say(Respond(out, 401, IF HasReadinessGate THEN "INVALID_CREDENTIALS" ELSE ""),
        "Invalid username or password")

postLogin(username, password, f) ==
    IF (HasReadinessGate \/ variant = "legacy")
       /\ (username = NULLSTR \/ password = NULLSTR)
    THEN Say(Respond(Entered, 400, IF HasReadinessGate THEN "MISSING_FIELDS" ELSE ""),
             "Username and password are required")
    ELSE IF ConnectFails(f) \/ f = 2
    THEN Say(ReadFails(f, "LOGIN_FAILED"),
             IF HasReadinessGate THEN "Login failed. Please try again."
             ELSE "Login failed")
    ELSE IF UserByName(username) = {}
    THEN unknownUser(OneQuery)
    ELSE LET user == CHOOSE u \in users : u.username = username IN
         IF password = NULLSTR
         THEN \* bcrypt.compare(undefined, hash) throws inside the try
              Say(Leaked(OneQuery, ""), "Login failed")
         ELSE IF ~verifyPassword(password, user)
         THEN wrongPassword(OneQuery)
         ELSE [OneQuery EXCEPT !.status = 200,
                               !.message = "Login successful",
                               !.token = generateToken(user),
                               !.data = IF HasReadinessGate THEN PublicUser(user)
                                        ELSE <<>>]

Login(username, password, f) ==
    Handle("POST /login", NoToken, 0,
           [username |-> username, password |-> password],
           checkDatabaseAvailability(Base, postLogin(username, password, f)))

----------------------------------------------------------------------------
(* Protected routes: the token gate, then the readiness gate, then the handler *)

\* the readiness gate in front of the token gate
ProtectedReadinessFirst(tok, handled) ==
    checkDatabaseAvailability(Base, authenticateToken(tok, handled))

\* app.get(path, authenticateToken, checkDatabaseAvailability, handler)
Protected(tok, handled) ==
    authenticateToken(tok, checkDatabaseAvailability(Base, handled))

RECURSIVE Perms(_)
Perms(S) ==
    IF S = {} THEN {<<>>}
    ELSE UNION {{<<x>> \o p : p \in Perms(S \ {x})} : x \in S}

----------------------------------------------------------------------------
(* GET /users, GET /user/:id *)

UserColumns(u) == [id |-> u.id, username |-> u.username, created_at |-> u.created_at]

OrderedUsers(rows) ==
    \A i, j \in 1..Len(rows) : i < j => rows[i].created_at >= rows[j].created_at

getUsers(rows, f) ==
    IF f \in {1, 2} \/ ConnectFails(f) THEN ReadFails(f, "FETCH_USERS_FAILED")
    ELSE IF ~emailColumn
    THEN Caught(OneQuery, 500, "FETCH_USERS_FAILED", "42703")
    ELSE [OneQuery EXCEPT !.status = 200, !.data = rows]

GetUsers(tok, f) ==
    /\ HasReadinessGate
    /\ \E rows \in {r \in Perms({UserColumns(u) : u \in users}) : OrderedUsers(r)} :
         Handle("GET /users", tok, 0, <<>>, Protected(tok, getUsers(rows, f)))

getUser(id, f) ==
    IF f \in {1, 2} \/ ConnectFails(f) THEN ReadFails(f, "FETCH_USER_FAILED")
    ELSE IF ~emailColumn
    THEN Caught(OneQuery, 500, "FETCH_USER_FAILED", "42703")
    ELSE IF {u \in users : u.id = id} = {}
    THEN Respond(OneQuery, 404, "USER_NOT_FOUND")
    ELSE [OneQuery EXCEPT !.status = 200,
                          !.data = UserColumns(CHOOSE u \in users : u.id = id)]

GetUser(tok, id, f) ==
    /\ HasReadinessGate
    /\ Handle("GET /user/:id", tok, id, <<>>, Protected(tok, getUser(id, f)))

----------------------------------------------------------------------------
(* Table product *)

ProductById(id) == {p \in product : p.product_id = id}
RowOf(tbl, id) == CHOOSE p \in tbl : p.product_id = id

\* the NOT NULL constraints of the table (src/db.js:29-36)
NotNullOk(r) ==
    r.product_name # NULLSTR /\ r.quantity # NULLNUM /\ r.price # NULLNUM

OrderedProducts(rows) ==
    \A i, j \in 1..Len(rows) : i < j => rows[i].currentstamp >= rows[j].currentstamp

----------------------------------------------------------------------------
(* GET /products, GET /product/:id *)

getProducts(rows, f) ==
    IF f \in {1, 2} \/ ConnectFails(f)
    THEN ReadFails(f, "FETCH_PRODUCTS_FAILED")
    ELSE [OneQuery EXCEPT !.status = 200, !.data = rows]

GetProducts(tok, f) ==
    \E rows \in {r \in Perms(product) : HasReadinessGate => OrderedProducts(r)} :
        Handle("GET /products", tok, 0, <<>>, Protected(tok, getProducts(rows, f)))

getProduct(id, f) ==
    IF f \in {1, 2} \/ ConnectFails(f)
    THEN ReadFails(f, "FETCH_PRODUCT_FAILED")
    ELSE IF ProductById(id) = {}
    THEN Respond(OneQuery, 404, IF HasReadinessGate THEN "PRODUCT_NOT_FOUND" ELSE "")
    ELSE [OneQuery EXCEPT !.status = 200, !.data = RowOf(product, id)]

GetProduct(tok, id, f) ==
    Handle("GET /product/:id", tok, id, <<>>, Protected(tok, getProduct(id, f)))

----------------------------------------------------------------------------
(* POST /products *)

\* the row INSERT ... RETURNING * creates for one item of the request body
NewRow(item, id, emptyDescription) ==
    [product_id |-> id, product_name |-> item.product_name,
     description |-> IF item.description = NULLSTR THEN emptyDescription
                     ELSE item.description,
     quantity |-> item.quantity, price |-> item.price, currentstamp |-> now]

\* the for loop over the request body.  validate: the handler throws on an item
\* without product_name, quantity or price before it sends the INSERT.
\* fi: the item whose INSERT fails for a reason outside the handler.
\* The result: the rows inserted before the loop ended, and the error that
\* ended it ("" when every item was inserted).
RECURSIVE insertLoop(_, _, _, _, _, _)
insertLoop(items, k, rows, seq, validate, fi) ==
    IF k > Len(items) THEN [rows |-> rows, seq |-> seq, err |-> "", sent |-> k - 1]
    ELSE LET item == items[k]
             row == NewRow(item, seq + 1, IF validate THEN "" ELSE NULLSTR)
         IN IF validate /\ ~NotNullOk(item)
            THEN [rows |-> rows, seq |-> seq, err |-> "Missing required fields",
                  sent |-> k - 1]
            ELSE IF fi = k
            THEN [rows |-> rows, seq |-> seq, err |-> "query", sent |-> k]
            ELSE IF ~NotNullOk(item)
            THEN [rows |-> rows, seq |-> seq + 1, err |-> "23502", sent |-> k]
            ELSE insertLoop(items, k + 1, Append(rows, row), seq + 1, validate, fi)

Range(q) == {q[i] : i \in DOMAIN q}

\* app, util: BEGIN, the loop, COMMIT; ROLLBACK in the catch block.
\* f: 1 the connection fails, 2 BEGIN fails, 3 COMMIT fails.
\* rb: the ROLLBACK of the catch block fails too, and the handler's promise
\* rejects without a response.
createProductsInTransaction(items, f, fi, rb) ==
    IF ConnectFails(f)
    THEN [Caught(Entered, 500, "CREATE_PRODUCTS_FAILED", "connect") EXCEPT
            !.details = TRUE]
    ELSE LET r == IF f = 2 THEN [rows |-> <<>>, seq |-> productSeq,
                                 err |-> "query", sent |-> 0]
                  ELSE insertLoop(items, 1, <<>>, productSeq, TRUE, fi)
             err == IF r.err = "" /\ f = 3 THEN "query" ELSE r.err
             T == [Entered EXCEPT !.acquired = 1, !.released = 1,
                                  !.productSeq = r.seq]
         IN IF err # ""
            THEN \* ROLLBACK: nothing of the batch stays
                 IF rb
                 THEN [T EXCEPT !.dbErr = err, !.queries = r.sent + 2]
                 ELSE [Caught(T, 500, "CREATE_PRODUCTS_FAILED", err) EXCEPT
                          !.details = TRUE,
                          !.queries = r.sent + 2 + (IF f = 3 THEN 1 ELSE 0)]
            ELSE [T EXCEPT !.status = 201, !.data = r.rows,
                           !.product = product \cup Range(r.rows),
                           !.queries = r.sent + 2]

\* legacy, batch: one pool.query per item, each committed on its own
createProductsOneByOne(items, f, fi) ==
    LET r == insertLoop(items, 1, <<>>, productSeq, FALSE,
                        IF f \in {1, 2} /\ fi = 0 THEN 1 ELSE fi)
        T == [Entered EXCEPT !.acquired = r.sent, !.released = r.sent,
                             !.queries = r.sent, !.productSeq = r.seq,
                             !.product = product \cup Range(r.rows)]
    IN IF r.err # "" THEN Leaked(T, r.err)
       ELSE [T EXCEPT !.status = 201, !.data = r.rows]

postProducts(body, f, fi, rb) ==
    IF ~body.isArray
    THEN Respond(Entered, 400, IF HasReadinessGate THEN "INVALID_FORMAT" ELSE "")
    ELSE IF HasReadinessGate
    THEN createProductsInTransaction(body.items, f, fi, rb)
    ELSE createProductsOneByOne(body.items, f, fi)

PostProducts(tok, body, f, fi, rb) ==
    /\ productSeq + Len(body.items) <= MaxProductSeq
    /\ Handle("POST /products", tok, 0, body, Protected(tok, postProducts(body, f, fi, rb)))

----------------------------------------------------------------------------
(* POST /products await by await, with other requests in between *)

\* the table other connections read after an INSERT of the handler: inside
\* BEGIN ... COMMIT the row stays invisible (READ COMMITTED), a pool.query of
\* the servers without a transaction commits it at once
afterInsertAutocommit(tbl, row) == tbl \cup {row}

afterInsert(tbl, row) == IF HasReadinessGate THEN tbl ELSE tbl \cup {row}

InFlight == txn.stage \in {"open", "failing"}

\* the gates, the list check, getConnection and BEGIN
StartCreate(tok, items) ==
    /\ ~InFlight
    /\ productSeq + Len(items) <= MaxProductSeq
    /\ Protected(tok, Entered).entered
    /\ ~ConnectFails(0)
    /\ txn' = [stage |-> "open", tok |-> tok, items |-> items, k |-> 1,
               rows |-> <<>>, err |-> ""]
    /\ checkedOut' = checkedOut + (IF HasReadinessGate THEN 1 ELSE 0)
    /\ last' = Idle
    /\ UNCHANGED <<variant, nodeEnv, emailColumn, isDBInitialized, initPending, users,
                   userSeq, product, productSeq, now, held, pending>>

\* one turn of the for loop; fail: the INSERT fails outside the handler
InsertItem(fail) ==
    /\ txn.stage = "open"
    /\ txn.k <= Len(txn.items)
    /\ LET r == insertLoop(<<txn.items[txn.k]>>, 1, <<>>, productSeq,
                           HasReadinessGate, IF fail THEN 1 ELSE 0)
       IN /\ productSeq' = r.seq
          /\ IF r.err # ""
             THEN /\ txn' = [txn EXCEPT !.stage = "failing", !.err = r.err]
                  /\ UNCHANGED product
             ELSE /\ txn' = [txn EXCEPT !.k = txn.k + 1,
                                        !.rows = Append(txn.rows, r.rows[1])]
                  /\ product' = afterInsert(product, r.rows[1])
    /\ last' = Idle
    /\ UNCHANGED <<variant, nodeEnv, emailColumn, isDBInitialized, initPending, users,
                   userSeq, checkedOut, now, held, pending>>

\* the response of the request in flight
TxnOut ==
    [Entered EXCEPT !.user = [id |-> txn.tok.id, username |-> txn.tok.username],
                    !.acquired = IF HasReadinessGate THEN 1 ELSE txn.k - 1,
                    !.released = IF HasReadinessGate THEN 1 ELSE txn.k - 1,
                    !.checkedOut = checkedOut - (IF HasReadinessGate THEN 1 ELSE 0)]

\* COMMIT and the 201; fail: the COMMIT fails and the catch block is next
FinishCreate(fail) ==
    /\ UNCHANGED pending
    /\ txn.stage = "open"
    /\ txn.k > Len(txn.items)
    /\ IF fail /\ HasReadinessGate
       THEN /\ txn' = [txn EXCEPT !.stage = "failing", !.err = "query"]
            /\ last' = Idle
            /\ UNCHANGED <<variant, nodeEnv, emailColumn, isDBInitialized, initPending,
                           users, userSeq, product, productSeq, checkedOut, now,
                           held>>
       ELSE /\ txn' = [txn EXCEPT !.stage = "committed"]
            /\ Effects("POST /products", txn.tok, 0,
                       [isArray |-> TRUE, items |-> txn.items],
                       [TxnOut EXCEPT
                           !.status = 201, !.data = txn.rows,
                           !.product = product \cup Range(txn.rows),
                           !.queries = Len(txn.items) +
                                       (IF HasReadinessGate THEN 2 ELSE 0)])

\* the catch block: ROLLBACK where there is a transaction, and the 500
AbortCreate ==
    /\ UNCHANGED pending
    /\ txn.stage = "failing"
    /\ txn' = [txn EXCEPT !.stage = IF HasReadinessGate THEN "rolledback"
                                    ELSE "failed"]
    /\ Effects("POST /products", txn.tok, 0,
               [isArray |-> TRUE, items |-> txn.items],
               IF HasReadinessGate
               THEN [Caught(TxnOut, 500, "CREATE_PRODUCTS_FAILED",
                            txn.err) EXCEPT !.details = TRUE]
               ELSE Leaked(TxnOut, txn.err))

----------------------------------------------------------------------------
(* PUT /product/:id *)

\* UPDATE product SET product_name = $1, description = $2, quantity = $3,
\* price = $4, currentstamp = CURRENT_TIMESTAMP WHERE product_id = $5
FullUpdateKeepPrice(row, body) ==
    [product_id |-> row.product_id, product_name |-> body.product_name,
     description |-> body.description, quantity |-> body.quantity,
     price |-> row.price, currentstamp |-> now]

FullUpdate(row, body) ==
    [product_id |-> row.product_id, product_name |-> body.product_name,
     description |-> body.description, quantity |-> body.quantity,
     price |-> body.price, currentstamp |-> now]

putProduct(id, body, f) ==
    LET code == "UPDATE_PRODUCT_FAILED"
        two == [OneQuery EXCEPT !.queries = IF HasReadinessGate THEN 2 ELSE 1]
    IN IF ConnectFails(f) THEN Failed(Entered, code, "connect")
       ELSE IF f = 2 THEN Failed(OneQuery, code, "query")
       ELSE IF ProductById(id) = {}
       THEN Respond(OneQuery, 404, IF HasReadinessGate THEN "PRODUCT_NOT_FOUND" ELSE "")
       ELSE IF f = 3 /\ HasReadinessGate THEN Failed(two, code, "query")
       ELSE IF ~NotNullOk(body) THEN Failed(two, code, "23502")
       ELSE LET row == RowOf(product, id)
                new == FullUpdate(row, body)
            IN [two EXCEPT !.status = 200, !.data = new,
                           !.product = (product \ {row}) \cup {new}]

PutProduct(tok, id, body, f) ==
    Handle("PUT /product/:id", tok, id, body, Protected(tok, putProduct(id, body, f)))

----------------------------------------------------------------------------
(* DELETE /product/:id *)

deleteProduct(id, f) ==
    LET code == "DELETE_PRODUCT_FAILED"
        two == [OneQuery EXCEPT !.queries = IF HasReadinessGate THEN 2 ELSE 1]
    IN IF ConnectFails(f) THEN Failed(Entered, code, "connect")
       ELSE IF f = 2 THEN Failed(OneQuery, code, "query")
       ELSE IF ProductById(id) = {}
       THEN Respond(OneQuery, 404, IF HasReadinessGate THEN "PRODUCT_NOT_FOUND" ELSE "")
       ELSE IF f = 3 /\ HasReadinessGate THEN Failed(two, code, "query")
       ELSE LET row == RowOf(product, id)
            IN [two EXCEPT !.status = 200,
                           !.data = IF HasReadinessGate THEN row ELSE <<>>,
                           !.product = product \ {row}]

DeleteProduct(tok, id, f) ==
    Handle("DELETE /product/:id", tok, id, <<>>, Protected(tok, deleteProduct(id, f)))

----------------------------------------------------------------------------
(* PUT and DELETE /product/:id of src/app.js, await by await *)

Clients == 1..MaxClients
NoRequest == [route |-> "none", tok |-> NoToken, id |-> 0, body |-> <<>>]

\* the gates, getConnection and the SELECT that looks for the row: a 404 when
\* there is none, otherwise the handler waits for its second statement
CheckExists(c, route, tok, id, body) ==
    /\ HasReadinessGate
    /\ pending[c] = NoRequest
    /\ Protected(tok, Entered).entered
    /\ ~ConnectFails(0)
    /\ IF ProductById(id) = {}
       THEN /\ Effects(route, tok, id, body,
                       Protected(tok, Respond(OneQuery, 404, "PRODUCT_NOT_FOUND")))
            /\ UNCHANGED pending
       ELSE /\ pending' = [pending EXCEPT ![c] = [route |-> route, tok |-> tok,
                                                   id |-> id, body |-> body]]
            /\ checkedOut' = checkedOut + 1
            /\ last' = Idle
            /\ UNCHANGED <<variant, nodeEnv, emailColumn, isDBInitialized, initPending,
                           users, userSeq, product, productSeq, now, held>>
    /\ UNCHANGED txn

\* UPDATE ... RETURNING * or DELETE ... RETURNING * on the table as it is by
\* now, and the 200 with result.rows[0], which is undefined when no row matched
secondStatement(r) ==
    LET two == [Entered EXCEPT !.user = [id |-> r.tok.id, username |-> r.tok.username],
                               !.acquired = 1, !.released = 1, !.queries = 2,
                               !.checkedOut = checkedOut - 1]
        rows == ProductById(r.id)
    IN IF rows = {} THEN Respond(two, 200, "")
       ELSE LET row == RowOf(product, r.id)
            IN IF r.route = "DELETE /product/:id"
               THEN [two EXCEPT !.status = 200, !.data = row,
                                !.product = product \ {row}]
               ELSE IF ~NotNullOk(r.body)
               THEN Caught(two, 500, "UPDATE_PRODUCT_FAILED", "23502")
               ELSE LET new == FullUpdate(row, r.body)
                    IN [two EXCEPT !.status = 200, !.data = new,
                                   !.product = (product \ {row}) \cup {new}]

Complete(c) ==
    /\ pending[c].route \in {"PUT /product/:id", "DELETE /product/:id"}
    /\ pending' = [pending EXCEPT ![c] = NoRequest]
    /\ Effects(pending[c].route, pending[c].tok, pending[c].id, pending[c].body,
               secondStatement(pending[c]))
    /\ UNCHANGED txn

----------------------------------------------------------------------------
(* POST /signup of src/app.js, await by await *)

\* the readiness gate, the two tests of the body, getConnection and
\* bcrypt.hash: the handler waits for its INSERT
BeginSignup(c, username, password) ==
    /\ HasReadinessGate
    /\ pending[c] = NoRequest
    /\ userSeq + Cardinality({d \in Clients : pending[d].route = "POST /signup"})
          < MaxUserSeq
    /\ checkDatabaseAvailability(Base, Entered).entered
    /\ ~weakPassword(password)
    /\ ~ConnectFails(0)
    /\ pending' = [pending EXCEPT ![c] =
                      [route |-> "POST /signup", tok |-> NoToken, id |-> 0,
                       body |-> [username |-> username, password |-> password]]]
    /\ checkedOut' = checkedOut + 1
    /\ last' = Idle
    /\ UNCHANGED <<variant, nodeEnv, emailColumn, isDBInitialized, initPending,
                   users, userSeq, product, productSeq, now, held, txn>>

\* the INSERT on the table as it is by now, and the response
signupStatement(body, fail) ==
    LET one == [OneQuery EXCEPT !.checkedOut = checkedOut - 1]
    IN IF fail THEN Caught(one, 500, "SIGNUP_FAILED", "query")
       ELSE IF variant = "app" /\ ~emailColumn
       THEN Caught(one, 500, "SIGNUP_FAILED", "42703")
       ELSE LET r == insertUser(one, body.username,
                                bcryptHash(body.password, BCRYPT_ROUNDS),
                                409, "DUPLICATE_USERNAME", 500)
            IN IF r.status = 500 THEN [r EXCEPT !.error = "SIGNUP_FAILED"] ELSE r

InsertSignup(c, fail) ==
    /\ pending[c].route = "POST /signup"
    /\ pending' = [pending EXCEPT ![c] = NoRequest]
    /\ Effects("POST /signup", NoToken, 0, pending[c].body,
               signupStatement(pending[c].body, fail))
    /\ UNCHANGED txn

----------------------------------------------------------------------------
(* PATCH /product/:id and the statement it builds *)

Columns ==
    {"product_id", "product_name", "description", "quantity", "price", "currentstamp"}

\* the columns a caller may change (spec.md section 4.4)
AllowList == {"product_name", "description", "quantity", "price"}

\* a key that is SQL text: SET price = 0, quantity = $1
InjectionKey == "price = 0, quantity"

\* PostgreSQL folds an unquoted identifier to lower case
FoldCase(key) == IF key = "PRODUCT_ID" THEN "product_id" ELSE key

\* the columns the clause `${key} = $n` assigns once the statement is parsed;
\* none when the key names no column of the table (error 42703)
SqlColumns(key) ==
    IF key = InjectionKey THEN {"price", "quantity"}
    ELSE IF FoldCase(key) \in Columns THEN {FoldCase(key)}
    ELSE {}

\* the value the clause of `key` gives column c: the bound parameter, or the
\* literal inside the injected text
SqlValue(key, c, v) == IF key = InjectionKey /\ c = "price" THEN 0 ELSE v

\* for (const key in updates) if (... key !== 'product_id') setClauses.push(...)
setClausesKeepId(updates) == DOMAIN updates

setClauses(updates) == {key \in DOMAIN updates : key # "product_id"}

\* UPDATE product SET <clauses>, currentstamp = CURRENT_TIMESTAMP
\* WHERE product_id = id RETURNING *  on table tbl.
\* err: the SQLSTATE PostgreSQL raises, "" when the statement ran;
\* rows: what RETURNING yields; tbl: the table afterwards.
updateStatement(tbl, id, updates, keys) ==
    LET K(c) == {k \in keys : c \in SqlColumns(k)}
        Times(c) == Cardinality(K(c)) + (IF c = "currentstamp" THEN 1 ELSE 0)
        old == RowOf(tbl, id)
        V(c) == IF K(c) = {} THEN old[c]
                ELSE LET k == CHOOSE k \in K(c) : TRUE IN SqlValue(k, c, updates[k])
        new == [product_id |-> V("product_id"), product_name |-> V("product_name"),
                description |-> V("description"), quantity |-> V("quantity"),
                price |-> V("price"), currentstamp |-> now]
    IN IF \E k \in keys : SqlColumns(k) = {}
       THEN [err |-> "42703", rows |-> {}, tbl |-> tbl]
       ELSE IF \E c \in Columns : Times(c) > 1
       THEN [err |-> "42601", rows |-> {}, tbl |-> tbl]
       ELSE IF {p \in tbl : p.product_id = id} = {}
       THEN [err |-> "", rows |-> {}, tbl |-> tbl]
       ELSE IF ~NotNullOk(new)
       THEN [err |-> "23502", rows |-> {}, tbl |-> tbl]
       ELSE IF \E p \in tbl \ {old} : p.product_id = new.product_id
       THEN [err |-> "23505", rows |-> {}, tbl |-> tbl]
       ELSE [err |-> "", rows |-> {new}, tbl |-> (tbl \ {old}) \cup {new}]

patchProduct(id, updates, f) ==
    LET keys == setClauses(updates)
        two == [OneQuery EXCEPT !.acquired = 2, !.released = 2, !.queries = 2,
                                !.sql = keys]
    IN IF ConnectFails(f) THEN Leaked(Entered, "connect")
       ELSE IF f = 2 THEN Leaked(OneQuery, "query")
       ELSE IF ProductById(id) = {} THEN Respond(OneQuery, 404, "")
       ELSE IF keys = {}
       THEN [OneQuery EXCEPT !.status = 200, !.data = RowOf(product, id)]
       ELSE IF f = 3 THEN Leaked(two, "query")
       ELSE LET r == updateStatement(product, id, updates, keys)
            IN IF r.err # "" THEN Leaked(two, r.err)
               ELSE IF r.rows = {} THEN Respond(two, 404, "")
               ELSE [two EXCEPT !.status = 200,
                                !.data = CHOOSE p \in r.rows : TRUE,
                                !.product = r.tbl]

PatchProduct(tok, id, updates, f) ==
    /\ ~HasReadinessGate
    /\ Handle("PATCH /product/:id", tok, id, updates,
              Protected(tok, patchProduct(id, updates, f)))

----------------------------------------------------------------------------
(* The bulk routes of the batch server: DELETE, PUT and PATCH /products *)

\* DELETE FROM product WHERE product_id = ANY($1::int[]) RETURNING *
deleteProducts(body, f) ==
    IF ~body.isArray \/ body.ids = <<>> THEN Respond(Entered, 400, "")
    ELSE IF ConnectFails(f) THEN Leaked(Entered, "connect")
    ELSE IF f = 2 THEN Leaked(OneQuery, "query")
    ELSE LET gone == {p \in product : p.product_id \in Range(body.ids)}
         IN [OneQuery EXCEPT !.status = 200, !.data = gone,
                             !.product = product \ gone]

DeleteProducts(tok, body, f) ==
    /\ variant = "batch"
    /\ Handle("DELETE /products", tok, 0, body, Protected(tok, deleteProducts(body, f)))

\* the for loop of PUT /products (full = TRUE) and of PATCH /products: one
\* UPDATE per item, each committed on its own.  fi: the item whose UPDATE
\* fails for a reason outside the handler.
RECURSIVE updateLoop(_, _, _, _, _, _, _)
updateLoop(items, k, tbl, done, sent, full, fi) ==
    IF k > Len(items) THEN [tbl |-> tbl, done |-> done, sent |-> sent, err |-> ""]
    ELSE LET item == items[k]
             hasId == "product_id" \in DOMAIN item
             id == IF hasId THEN item["product_id"] ELSE 0
             \* const { product_id, ...fields } = product
             fields == [key \in DOMAIN item \ {"product_id"} |-> item[key]]
         IN IF full
            THEN IF fi = k
                 THEN [tbl |-> tbl, done |-> done, sent |-> sent + 1, err |-> "query"]
                 ELSE IF {p \in tbl : p.product_id = id} = {}
                 THEN updateLoop(items, k + 1, tbl, done, sent + 1, full, fi)
                 ELSE LET old == RowOf(tbl, id)
                          new == FullUpdate(old, item)
                      IN IF ~NotNullOk(new)
                         THEN [tbl |-> tbl, done |-> done, sent |-> sent + 1,
                               err |-> "23502"]
                         ELSE updateLoop(items, k + 1, (tbl \ {old}) \cup {new},
                                         Append(done, new), sent + 1, full, fi)
            ELSE IF ~hasId \/ id = 0 \/ DOMAIN fields = {}
            THEN \* if (!product_id) continue; if (setClauses.length === 0) continue
                 updateLoop(items, k + 1, tbl, done, sent, full, fi)
            ELSE IF fi = k
            THEN [tbl |-> tbl, done |-> done, sent |-> sent + 1, err |-> "query"]
            ELSE LET r == updateStatement(tbl, id, fields, DOMAIN fields)
                 IN IF r.err # ""
                    THEN [tbl |-> tbl, done |-> done, sent |-> sent + 1, err |-> r.err]
                    ELSE updateLoop(items, k + 1, r.tbl,
                                    IF r.rows = {} THEN done
                                    ELSE Append(done, CHOOSE p \in r.rows : TRUE),
                                    sent + 1, full, fi)

updateProducts(body, full, f, fi) ==
    IF ~body.isArray \/ body.items = <<>> THEN Respond(Entered, 400, "")
    ELSE LET r == updateLoop(body.items, 1, product, <<>>, 0, full,
                             IF f \in {1, 2} /\ fi = 0 THEN 1 ELSE fi)
             T == [Entered EXCEPT !.acquired = r.sent, !.released = r.sent,
                                  !.queries = r.sent, !.product = r.tbl,
                                  !.sql = IF full \/ r.sent = 0 THEN {}
                                          ELSE UNION {DOMAIN body.items[i] \ {"product_id"} :
                                                      i \in 1..Len(body.items)}]
         IN IF r.err # "" THEN Leaked(T, r.err)
            ELSE [T EXCEPT !.status = 200, !.data = r.done]

PutProducts(tok, body, f, fi) ==
    /\ variant = "batch"
    /\ Handle("PUT /products", tok, 0, body,
              Protected(tok, updateProducts(body, TRUE, f, fi)))

PatchProducts(tok, body, f, fi) ==
    /\ variant = "batch"
    /\ Handle("PATCH /products", tok, 0, body,
              Protected(tok, updateProducts(body, FALSE, f, fi)))

----------------------------------------------------------------------------
(* Requests *)

Widget == [product_name |-> "Widget", description |-> NULLSTR, quantity |-> 5, price |-> 10]
NoPrice == [Widget EXCEPT !.price = NULLNUM]
Gadget == [product_name |-> "Gadget", description |-> "d", quantity |-> 7, price |-> 20]
NoName == [Gadget EXCEPT !.product_name = NULLSTR]
\* a body whose quantity is below zero
Negative == [Widget EXCEPT !.quantity = 0 - 1]

\* the id PATCH and PUT bodies try to move a row to
OtherId == MaxProductSeq + 1
ProductIds == 1..OtherId

Lists(S) == UNION {[1..n -> S] : n \in 0..MaxBatch}
Array(items) == [isArray |-> TRUE, items |-> items]
NotArray == [isArray |-> FALSE, items |-> <<>>]

\* the keys of PATCH bodies and the value each carries
PatchKeys ==
    {"product_id", "PRODUCT_ID", "quantity", "currentstamp", "colour", InjectionKey}
PatchValue(key) ==
    CASE key \in {"product_id", "PRODUCT_ID"} -> OtherId
      [] key = "quantity" -> 7
      [] key = InjectionKey -> 7
      [] OTHER -> 0
PatchBodies(n) ==
    {[key \in K |-> PatchValue(key)] : K \in {K \in SUBSET PatchKeys : Cardinality(K) <= n}}

\* an item of PUT /products, of PATCH /products
WithId(id, fields) ==
    [key \in DOMAIN fields \cup {"product_id"} |->
        IF key = "product_id" THEN id ELSE fields[key]]

Credentials == (Usernames \cup {NULLSTR}) \X (Passwords \cup {NULLSTR})

----------------------------------------------------------------------------
(* Specifications *)

InitIn(deployed, envs) ==
    /\ variant \in deployed
    /\ nodeEnv \in envs
    /\ emailColumn \in (IF variant \in {"app", "util"} THEN BOOLEAN ELSE {FALSE})
    /\ isDBInitialized = FALSE
    /\ initPending = (variant \in {"app", "util"})
    /\ users = {}
    /\ userSeq = 0
    /\ product = {}
    /\ productSeq = 0
    /\ checkedOut = 0
    /\ now = 0
    /\ held = NoToken
    /\ last = Idle
    /\ txn = [stage |-> "none", tok |-> NoToken, items |-> <<>>, k |-> 0,
              rows |-> <<>>, err |-> ""]
    /\ pending = [c \in Clients |-> NoRequest]

\* the servers as deployed in production
InitOf(deployed) == InitIn(deployed, {"production"})

Init == InitOf(Variants)

\* every route of every server, with one request body per route
Next ==
    \/ \E ok \in BOOLEAN : InitDB(ok)
    \/ Tick
    \/ \E f \in {0, 2} : Health(f)
    \/ \E f \in {0, 2} : Signup("alice", "secret1", f)
    \/ \E f \in {0, 2} : Login("alice", "secret1", f)
    \/ \E tok \in PresentedTokens, f \in {0, 2} : GetUsers(tok, f)
    \/ \E tok \in PresentedTokens, f \in {0, 2} : GetUser(tok, 1, f)
    \/ \E tok \in PresentedTokens, f \in {0, 2} : GetProducts(tok, f)
    \/ \E tok \in PresentedTokens, f \in {0, 2} : GetProduct(tok, 1, f)
    \/ \E tok \in PresentedTokens, f \in {0, 2} :
          PostProducts(tok, Array(<<Widget>>), f, 0, FALSE)
    \/ \E tok \in PresentedTokens, f \in {0, 2} : PutProduct(tok, 1, Gadget, f)
    \/ \E tok \in PresentedTokens, f \in {0, 2} : DeleteProduct(tok, 1, f)
    \/ \E tok \in PresentedTokens, f \in {0, 2} :
          PatchProduct(tok, 1, [quantity |-> 7], f)
    \/ \E tok \in PresentedTokens, f \in {0, 2} :
          DeleteProducts(tok, [isArray |-> TRUE, ids |-> <<1>>], f)
    \/ \E tok \in PresentedTokens, f \in {0, 2} :
          PutProducts(tok, Array(<<WithId(1, Gadget)>>), f, 0)
    \/ \E tok \in PresentedTokens, f \in {0, 2} :
          PatchProducts(tok, Array(<<WithId(1, [quantity |-> 7])>>), f, 0)

Spec == Init /\ [][Next]_vars

\* the user routes, with every combination of credentials
NextUsers ==
    \/ \E ok \in BOOLEAN : InitDB(ok)
    \/ Tick
    \/ \E c \in Credentials, f \in {0, 2} : Signup(c[1], c[2], f)
    \/ \E c \in Credentials, f \in {0, 2} : Login(c[1], c[2], f)
    \/ \E tok \in PresentedTokens : GetUsers(tok, 0)
    \/ \E tok \in PresentedTokens, id \in 1..MaxUserSeq : GetUser(tok, id, 0)
    \/ \E tok \in PresentedTokens : GetProducts(tok, 0)

SpecUsers == Init /\ [][NextUsers]_vars

\* bulk creation, with every list of items and every failing database call
NextCreate ==
    \/ InitDB(TRUE)
    \/ Tick
    \/ Signup("alice", "secret1", 0)
    \/ \E body \in {Array(items) : items \in Lists({Widget, NoPrice})} \cup {NotArray},
          f \in 0..3, fi \in 0..MaxBatch, rb \in BOOLEAN :
          PostProducts(held, body, f, fi, rb)
    \/ GetProducts(held, 0)

SpecCreate == Init /\ [][NextCreate]_vars

\* the failing paths of the servers, in production and in development
NextErrors ==
    \/ \E ok \in BOOLEAN : InitDB(ok)
    \/ Signup("alice", "secret1", 0)
    \/ \E password \in {"secret1", "secret2"}, f \in 0..2 :
          Login("alice", password, f)
    \/ \E f \in 0..2 : Health(f)
    \/ \E route \in {"POST /login", "POST /products"} : MalformedBody(route)
    \/ \E tok \in PresentedTokens, f \in 0..2 : GetProducts(tok, f)
    \/ \E body \in {Array(items) : items \in Lists({Widget, NoPrice})},
          f \in 0..3 :
          PostProducts(held, body, f, 0, FALSE)

SpecErrors == InitIn(Variants, NodeEnvs) /\ [][NextErrors]_vars

\* the servers with the PATCH routes (src/unnamed/part_000), with every PATCH body
NextPatch ==
    \/ Tick
    \/ Signup("alice", "secret1", 0)
    \/ Login("alice", "secret1", 0)
    \/ PostProducts(held, Array(<<Widget>>), 0, 0, FALSE)
    \/ \E id \in {1, OtherId}, updates \in PatchBodies(1), f \in {0, 2} :
          PatchProduct(held, id, updates, f)
    \/ \E id \in {1, OtherId}, body \in {Gadget, NoName} : PutProduct(held, id, body, 0)
    \/ \E items \in Lists({WithId(id, Gadget) : id \in {1, OtherId}}) :
          PutProducts(held, Array(items), 0, 0)
    \/ \E items \in Lists({WithId(1, [quantity |-> 7]),
                            WithId(2, [PRODUCT_ID |-> OtherId])}) :
          PatchProducts(held, Array(items), 0, 0)

SpecPatch == InitOf({"legacy", "batch"}) /\ [][NextPatch]_vars

\* the bulk routes of the second server of src/unnamed/part_000
NextBulk ==
    \/ Tick
    \/ Signup("alice", "secret1", 0)
    \/ Login("alice", "secret1", 0)
    \/ \E items \in Lists({Widget}) \ {<<>>} :
          PostProducts(held, Array(items), 0, 0, FALSE)
    \/ \E ids \in Lists(ProductIds), f \in {0, 2} :
          DeleteProducts(held, [isArray |-> TRUE, ids |-> ids], f)
    \/ \E items \in Lists({WithId(id, fields) : id \in ProductIds,
                                                 fields \in {Gadget, NoName}}),
          f \in {0, 2}, fi \in 0..MaxBatch :
          PutProducts(held, Array(items), f, fi)
    \/ GetProducts(held, 0)

SpecBulk == InitOf({"batch"}) /\ [][NextBulk]_vars

\* concurrent PUT and DELETE /product/:id on the servers of src/app.js and
\* part_001
NextRace ==
    \/ InitDB(TRUE)
    \/ Tick
    \/ Signup("alice", "secret1", 0)
    \/ PostProducts(held, Array(<<Widget>>), 0, 0, FALSE)
    \/ \E c \in Clients, id \in 1..MaxProductSeq :
          \/ CheckExists(c, "PUT /product/:id", held, id, Gadget)
          \/ CheckExists(c, "DELETE /product/:id", held, id, <<>>)
    \/ \E c \in Clients : Complete(c)
    \/ \E id \in 1..MaxProductSeq : GetProduct(held, id, 0)

SpecRace == InitOf({"app", "util"}) /\ [][NextRace]_vars

\* concurrent POST /signup on the servers of src/app.js and part_001
NextSignups ==
    \/ \E ok \in BOOLEAN : InitDB(ok)
    \/ Tick
    \/ \E c \in Clients, username \in Usernames, password \in {"secret1", "secret2"} :
          BeginSignup(c, username, password)
    \/ \E c \in Clients, fail \in BOOLEAN : InsertSignup(c, fail)
    \/ \E username \in Usernames, password \in {"secret1", "secret2"} :
          Login(username, password, 0)

SpecSignups == InitOf({"app", "util"}) /\ [][NextSignups]_vars

\* a restart of the server of src/app.js or part_001: the database keeps the
\* rows of the run before, and a client the token that run issued
InitRestarted ==
    /\ variant \in {"app", "util"}
    /\ nodeEnv = "production"
    /\ emailColumn \in BOOLEAN
    /\ isDBInitialized = FALSE
    /\ initPending = TRUE
    /\ users = {[id |-> 1, username |-> "alice",
                 password |-> bcryptHash("secret1", BCRYPT_ROUNDS), created_at |-> 0]}
    /\ userSeq = 1
    /\ product = {[product_id |-> 1, product_name |-> "Widget", description |-> NULLSTR,
                   quantity |-> 5, price |-> 10, currentstamp |-> 0]}
    /\ productSeq = 1
    /\ checkedOut = 0
    /\ now = 0
    /\ held = [id |-> 1, username |-> "alice", exp |-> JWT_EXPIRY,
               sig |-> jwtSignature(1, "alice", JWT_EXPIRY, JWT_SECRET)]
    /\ last = Idle
    /\ txn = [stage |-> "none", tok |-> NoToken, items |-> <<>>, k |-> 0,
              rows |-> <<>>, err |-> ""]
    /\ pending = [c \in Clients |-> NoRequest]

\* the protected routes before and after initDB settles
NextGates ==
    \/ \E ok \in BOOLEAN : InitDB(ok)
    \/ Tick
    \/ Login("alice", "secret1", 0)
    \/ \E tok \in PresentedTokens : GetUsers(tok, 0)
    \/ \E tok \in PresentedTokens : GetUser(tok, 1, 0)
    \/ \E tok \in PresentedTokens : GetProducts(tok, 0)
    \/ \E tok \in PresentedTokens : GetProduct(tok, 1, 0)
    \/ \E tok \in PresentedTokens : PostProducts(tok, Array(<<Widget>>), 0, 0, FALSE)
    \/ \E tok \in PresentedTokens : PutProduct(tok, 1, Gadget, 0)
    \/ \E tok \in PresentedTokens : DeleteProduct(tok, 1, 0)

SpecGates == InitRestarted /\ [][NextGates]_vars

\* bulk creation one await at a time, with readers on other connections
NextReaders ==
    \/ InitDB(TRUE)
    \/ Signup("alice", "secret1", 0)
    \/ \E items \in Lists({Widget, NoPrice}) \ {<<>>} : StartCreate(held, items)
    \/ \E fail \in BOOLEAN : InsertItem(fail)
    \/ \E fail \in BOOLEAN : FinishCreate(fail)
    \/ AbortCreate
    \/ GetProducts(held, 0)
    \/ \E id \in 1..MaxProductSeq : GetProduct(held, id, 0)

SpecReaders == Init /\ [][NextReaders]_vars

\* the single-row product routes of every server, with complete, incomplete
\* and negative bodies and every failing database call
NextUpdate ==
    \/ InitDB(TRUE)
    \/ Tick
    \/ Signup("alice", "secret1", 0)
    \/ Login("alice", "secret1", 0)
    \/ \E item \in {Widget, Negative} :
          PostProducts(held, Array(<<item>>), 0, 0, FALSE)
    \/ \E id \in 1..MaxProductSeq, body \in {Gadget, NoName, Negative}, f \in {0, 2, 3} :
          PutProduct(held, id, body, f)
    \/ \E id \in 1..MaxProductSeq, f \in {0, 2, 3} : DeleteProduct(held, id, f)
    \/ \E id \in 1..MaxProductSeq : GetProduct(held, id, 0)

SpecUpdate == Init /\ [][NextUpdate]_vars

----------------------------------------------------------------------------
(* Properties *)

\* the routes behind authenticateToken that every server has
ProtectedRoutes ==
    {"GET /users", "GET /user/:id", "GET /products", "GET /product/:id",
     "POST /products", "PUT /product/:id", "DELETE /product/:id"}

\* C1: a POST /products whose body is a list inserts every item of the list or
\* leaves table product as it was; a request that is not answered 201 (an item
\* without product_name, quantity or price, or an INSERT that fails) persists
\* no item.  Checked under SpecCreate.  The servers of src/unnamed/part_000
\* commit each INSERT on its own and break it.
C1_AllOrNothing ==
    [][(last'.route = "POST /products" /\ last'.entered /\ last'.body.isArray) =>
          LET added == product' \ product
          IN /\ product \subseteq product'
             /\ Cardinality(added) \in {0, Len(last'.body.items)}
             /\ (last'.status # 201 => added = {})]_vars

\* C2: on each of the seven protected routes a request whose token is expired
\* or whose signature does not verify is answered 401 or 403, never enters the
\* handler, acquires no connection, sends no statement and changes no table.
\* Checked under Spec.
C2_BadTokenRejected ==
    [][(/\ last'.route \in ProtectedRoutes
        /\ last'.token # NoToken
        /\ \/ now >= last'.token.exp
           \/ last'.token.sig # jwtSignature(last'.token.id, last'.token.username,
                                              last'.token.exp, JWT_SECRET)) =>
          /\ last'.status \in {401, 403}
          /\ ~last'.entered
          /\ last'.acquired = 0
          /\ last'.queries = 0
          /\ users' = users /\ userSeq' = userSeq
          /\ product' = product /\ productSeq' = productSeq
          /\ checkedOut' = checkedOut]_vars

\* C2 happens: a correctly signed token that has expired is refused by
\* DELETE /product/:id while the addressed row exists.
C2_Witness ==
    /\ last.route = "DELETE /product/:id"
    /\ last.token.sig = jwtSignature(last.token.id, last.token.username,
                                     last.token.exp, JWT_SECRET)
    /\ now >= last.token.exp
    /\ last.status = 403
    /\ ProductById(last.id) # {}

\* C3: while the readiness flag is false, every route that touches the
\* database (signup, login, a protected route with an accepted token, and
\* GET /health) answers 503, acquires no connection, sends no statement and
\* changes no table.  Checked under Spec.  GET /health of src/app.js has no
\* readiness gate and breaks it.
C3_NotReadyMeans503 ==
    [][(/\ HasReadinessGate
        /\ ~isDBInitialized
        /\ \/ last'.route \in {"POST /signup", "POST /login", "GET /health"}
           \/ /\ last'.route \in ProtectedRoutes
              /\ last'.token # NoToken
              /\ now < last'.token.exp
              /\ last'.token.sig = jwtSignature(last'.token.id, last'.token.username,
                                                last'.token.exp, JWT_SECRET)) =>
          /\ last'.status = 503
          /\ last'.acquired = 0
          /\ last'.queries = 0
          /\ users' = users
          /\ product' = product]_vars

\* C4: every handler releases each connection it acquired, so between two
\* requests no client is checked out of the pool.  Checked under Spec.
\* GET /health of src/app.js releases its client after the query, outside any
\* finally block, and breaks it when the query fails.
C4_NoConnectionLeak ==
    /\ checkedOut = 0
    /\ last.acquired = last.released

\* C5: PATCH /product/:id puts no key outside the allow-list (product_name,
\* description, quantity, price) in its UPDATE statement, and the addressed row
\* changes in no column other than the allow-listed keys of the body and
\* currentstamp.  Checked under SpecPatch.  The handler interpolates every key
\* except the exact string product_id and breaks it.
C5_OnlyAllowListedKeys ==
    [][last'.route = "PATCH /product/:id" =>
          LET id == last'.id
              named == (DOMAIN last'.body \cap AllowList) \cup {"currentstamp"}
          IN /\ last'.sql \subseteq AllowList
             /\ (ProductById(id) # {} =>
                   /\ \E q \in product' : q.product_id = id
                   /\ \A c \in Columns \ named :
                         RowOf(product', id)[c] = RowOf(product, id)[c])]_vars

\* C6: PUT /product/:id, PATCH /product/:id, PUT /products and PATCH /products
\* leave the set of product ids as it was, whatever their bodies hold.
\* Checked under SpecPatch.  The key PRODUCT_ID passes the handler's test
\* key !== 'product_id' and PostgreSQL folds it to the column product_id.
C6_IdNeverChanges ==
    [][last'.route \in {"PUT /product/:id", "PATCH /product/:id",
                        "PUT /products", "PATCH /products"} =>
          {p.product_id : p \in product'} = {p.product_id : p \in product}]_vars

\* C7: PATCH /product/:id on an existing row with an empty body, or a body
\* holding only product_id, sends no UPDATE and leaves table product as it was,
\* currentstamp included; when the SELECT is executed the answer is 200 with
\* the current row.  Checked under SpecPatch.
C7_EmptyPatchIsNoOp ==
    [][(/\ last'.route = "PATCH /product/:id"
        /\ last'.entered
        /\ ProductById(last'.id) # {}
        /\ DOMAIN last'.body \subseteq {"product_id"}) =>
          /\ product' = product
          /\ last'.sql = {}
          /\ last'.queries <= 1
          /\ (last'.dbErr = "" =>
                /\ last'.status = 200
                /\ last'.data = RowOf(product, last'.id))]_vars

\* C7 happens: a body holding only product_id is answered 200 with a row whose
\* currentstamp is older than the clock, and the row is still in the table.
C7_Witness ==
    /\ last.route = "PATCH /product/:id"
    /\ DOMAIN last.body = {"product_id"}
    /\ last.status = 200
    /\ last.data \in product
    /\ last.data.product_id = last.id
    /\ last.data.currentstamp < now

\* C8: a PATCH /product/:id answered 200 changes, in the addressed row, only
\* the columns its body names and currentstamp, changes no other row, and
\* answers with the row as stored.  Checked under SpecPatch.  A key that is SQL
\* text (the defect of C5) assigns a column the body does not name.
C8_PatchFrame ==
    [][(/\ last'.route = "PATCH /product/:id"
        /\ last'.status = 200
        /\ ProductById(last'.id) # {}) =>
          LET old == RowOf(product, last'.id)
              named == {FoldCase(key) : key \in DOMAIN last'.body} \cup {"currentstamp"}
          IN /\ last'.data \in product'
             /\ product' \ {last'.data} = product \ {old}
             /\ \A c \in Columns \ named : last'.data[c] = old[c]]_vars

\* C9: once a row with username u exists, a POST /signup of src/app.js (and of
\* part_001) with username u and a password of at least six characters creates
\* no row, leaves the existing row as it was and is not answered 201; when the
\* database executes the INSERT the answer is 409 DUPLICATE_USERNAME.
\* Checked under SpecUsers.
C9_DuplicateSignup ==
    [][(/\ last'.route = "POST /signup"
        /\ HasReadinessGate
        /\ UserByName(last'.body.username) # {}
        /\ last'.body.password # NULLSTR
        /\ Len(last'.body.password) >= MIN_PASSWORD_LENGTH) =>
          /\ users' = users
          /\ last'.status # 201
          /\ (last'.dbErr \notin {"connect", "query"} =>
                /\ last'.status = 409
                /\ last'.error = "DUPLICATE_USERNAME")]_vars

\* C9 happens: a second signup with another valid password is answered 409
\* while the stored hash is still the one of the first password.
C9_Witness ==
    /\ last.route = "POST /signup"
    /\ last.status = 409
    /\ last.error = "DUPLICATE_USERNAME"
    /\ last.body.password = "secret2"
    /\ \E u \in users : /\ u.username = last.body.username
                        /\ u.password = bcryptHash("secret1", BCRYPT_ROUNDS)

\* C10: the token of a successful login or signup carries the id and username
\* of the stored row whose username and password are those of the request; and
\* a protected route that is presented the issued token before its expiry
\* attaches that id and username to the request and does not refuse it.
\* Checked under SpecUsers.
C10_TokenIdentity ==
    [][/\ (last'.route \in {"POST /login", "POST /signup"}
           /\ last'.status \in {200, 201}) =>
             \E u \in users' :
                /\ u.username = last'.body.username
                /\ bcryptCompare(last'.body.password, u.password)
                /\ held'.id = u.id
                /\ held'.username = u.username
                /\ held'.exp > now
                /\ (last'.data # <<>> => last'.data = PublicUser(u))
       /\ (last'.route \in ProtectedRoutes
           /\ held # NoToken
           /\ last'.token = held
           /\ now < held.exp) =>
             /\ last'.user = [id |-> held.id, username |-> held.username]
             /\ \E u \in users : u.id = held.id /\ u.username = held.username
             /\ last'.status \notin {401, 403}
             /\ (last'.status # 503 => last'.entered)]_vars

\* C10 happens: the token of the second user is accepted by a protected route,
\* which answers 200 to the identity of that user's row.
C10_Witness ==
    /\ last.route = "GET /products"
    /\ last.status = 200
    /\ last.token = held
    /\ last.user = [id |-> 2, username |-> "bob"]
    /\ \E u \in users : u.id = 2 /\ u.username = "bob"

\* what the client sees of a response
Visible(out) == <<out.status, out.error, out.message, out.data, out.token>>

\* C11: on the servers of src/app.js and part_001, a login with a username no
\* row has and a login with a stored username and a wrong password get the same
\* response: 401, INVALID_CREDENTIALS, the same message, no user and no token.
\* Checked under SpecUsers, in every state and for every such pair of requests
\* that the database executes.
C11_NoUsernameEnumeration ==
    (HasReadinessGate /\ isDBInitialized) =>
        \A a, b \in Usernames, p, q \in Passwords :
            (/\ UserByName(a) = {}
             /\ \E u \in UserByName(b) : ~bcryptCompare(q, u.password)) =>
                /\ Visible(postLogin(a, p, 0)) = Visible(postLogin(b, q, 0))
                /\ postLogin(a, p, 0).status = 401
                /\ postLogin(a, p, 0).error = "INVALID_CREDENTIALS"

\* C11 happens: a login for a username without a row was answered 401 while
\* another username has a row.
C11_Witness ==
    /\ HasReadinessGate
    /\ last.route = "POST /login"
    /\ last.status = 401
    /\ last.body.password # NULLSTR
    /\ last.body.username \in Usernames
    /\ UserByName(last.body.username) = {}
    /\ users # {}

\* C12: no response carries a stored password hash or a password of a request:
\* the user objects and list items of a response have no password column, the
\* token payload has none, and no text of the response is a password.
\* Checked under SpecUsers on the response of every request.
C12_NoPasswordInResponse ==
    /\ last.error \notin Passwords
    /\ last.message \notin Passwords
    /\ "password" \notin DOMAIN held
    /\ held.username \notin Passwords
    /\ (last.data # <<>> =>
          IF last.route \in {"GET /users", "GET /products"}
          THEN \A i \in DOMAIN last.data : "password" \notin DOMAIN last.data[i]
          ELSE /\ "password" \notin DOMAIN last.data
               /\ last.data.username \notin Passwords)

\* C12 happens: a login is answered 200 with the user object of a row that
\* stores a password hash, and GET /users lists rows that store one.
C12_Witness ==
    /\ last.route \in {"POST /login", "GET /users"}
    /\ last.status = 200
    /\ last.data # <<>>
    /\ \E u \in users : u.password = bcryptHash("secret1", BCRYPT_ROUNDS)
    /\ last.route = "POST /login" => last.data.username = last.body.username

\* C13: on the servers with error codes (src/app.js, part_001) the token gate
\* of a protected route answers a request without a token 401 MISSING_TOKEN, a
\* correctly signed token past its expiry 403 TOKEN_EXPIRED, and a token whose
\* signature does not verify 403 INVALID_TOKEN.  Checked under Spec.
\* authenticateToken of src/app.js answers INVALID_TOKEN to every failure of
\* jwt.verify and breaks it for expired tokens.
C13_TokenFailureClassified ==
    [][(HasReadinessGate /\ last'.route \in ProtectedRoutes) =>
          LET tok == last'.token
              signed == tok.sig = jwtSignature(tok.id, tok.username, tok.exp, JWT_SECRET)
          IN /\ (tok = NoToken =>
                    last'.status = 401 /\ last'.error = "MISSING_TOKEN")
             /\ (tok # NoToken /\ ~signed =>
                    last'.status = 403 /\ last'.error = "INVALID_TOKEN")
             /\ (tok # NoToken /\ signed /\ now >= tok.exp =>
                    last'.status = 403 /\ last'.error = "TOKEN_EXPIRED")]_vars

\* C14: on a database whose tables initDB created (users without an email
\* column), each request of the walk-through that the database executes is
\* answered as the walk-through says: signup of a new user 201 with a token;
\* login with the stored credentials 200 with a token; GET /products on an
\* empty table 200 with an empty list; POST /products with one valid item 201
\* with one row carrying a new id; GET /product/:id of a stored row 200 with
\* that row; DELETE /product/:id of a stored row 200, after which the row is
\* gone; GET /product/:id of a missing row 404.  Checked under Spec.
\* The INSERT of src/app.js names the email column initDB does not create.
C14_EndToEnd ==
    [][(/\ ~emailColumn
        /\ last'.entered
        /\ last'.dbErr \notin {"connect", "query"}) =>
          LET r == last'
              ids == {p.product_id : p \in product}
          IN /\ (r.route = "POST /signup" /\ r.body = [username |-> "alice",
                                                       password |-> "secret1"]
                 /\ UserByName("alice") = {}) =>
                    (r.status = 201 /\ held' # NoToken /\ held'.username = "alice")
             /\ (r.route = "POST /login"
                 /\ \E u \in UserByName(r.body.username) :
                       bcryptCompare(r.body.password, u.password)) =>
                    (r.status = 200 /\ held' # NoToken)
             /\ (r.route = "GET /products" /\ product = {}) =>
                    (r.status = 200 /\ r.data = <<>>)
             /\ (r.route = "POST /products" /\ r.body = Array(<<Widget>>)) =>
                    /\ r.status = 201
                    /\ Len(r.data) = 1
                    /\ r.data[1].product_id \notin ids
                    /\ product' = product \cup {r.data[1]}
             /\ (r.route = "GET /product/:id" /\ ProductById(r.id) # {}) =>
                    (r.status = 200 /\ r.data = RowOf(product, r.id))
             /\ (r.route = "DELETE /product/:id" /\ ProductById(r.id) # {}) =>
                    (r.status = 200 /\ product' = product \ ProductById(r.id))
             /\ (r.route = "GET /product/:id" /\ ProductById(r.id) = {}) =>
                    r.status = 404]_vars

\* C15: POST /products answers 400 when the body is not a list, and answers
\* with a 400-class status when an item of the list lacks product_name,
\* quantity or price (and the connection and the statements before the item do
\* not fail).  Checked under SpecCreate for the handler of src/app.js and
\* part_001, which throws inside its try block; its catch answers 500
\* CREATE_PRODUCTS_FAILED.
C15_ValidationIs400 ==
    [][(HasReadinessGate /\ last'.route = "POST /products" /\ last'.entered) =>
          /\ (~last'.body.isArray => last'.status = 400)
          /\ (/\ last'.body.isArray
              /\ \E i \in DOMAIN last'.body.items : ~NotNullOk(last'.body.items[i])
              /\ last'.dbErr \notin {"connect", "query"}) =>
                 last'.status \in 400..499]_vars

\* C16: while a POST /products of src/app.js (or part_001) is between BEGIN
\* and its response, and after it, a GET /products or GET /product/:id on
\* another connection returns no row of the batch unless the batch has
\* committed, and after the commit GET /products returns all of its rows (none
\* is deleted in between).  Checked under SpecReaders.
C16_NoPartialBatchVisible ==
    [][(/\ HasReadinessGate
        /\ txn.stage # "none"
        /\ last'.route \in {"GET /products", "GET /product/:id"}
        /\ last'.status = 200) =>
          LET batch == Range(txn.rows)
              seen == IF last'.route = "GET /products"
                      THEN Range(last'.data) \cap batch
                      ELSE {last'.data} \cap batch
          IN /\ seen # {} => txn.stage = "committed"
             /\ (last'.route = "GET /products" /\ txn.stage = "committed") =>
                   seen = batch]_vars

\* C16 happens: GET /products is answered 200 with an empty list while the
\* batch in flight has inserted one of its two rows, uncommitted.
C16_Witness ==
    /\ HasReadinessGate
    /\ txn.stage = "open"
    /\ Len(txn.items) = 2
    /\ Len(txn.rows) = 1
    /\ last.route = "GET /products"
    /\ last.status = 200
    /\ last.data = <<>>

C18_DeleteReturnsRow ==
    [][/\ (/\ last'.route = "DELETE /product/:id"
           /\ last'.entered
           /\ last'.dbErr \notin {"connect", "query"}) =>
             IF ProductById(last'.id) = {}
             THEN last'.status = 404 /\ product' = product
             ELSE /\ last'.status = 200
                  /\ product' = product \ ProductById(last'.id)
                  /\ last'.data = RowOf(product, last'.id)
       /\ (/\ last'.route = "GET /product/:id"
           /\ last'.entered
           /\ last'.dbErr \notin {"connect", "query"}
           /\ ProductById(last'.id) = {}) => last'.status = 404
       /\ productSeq' >= productSeq
       /\ {p.product_id : p \in product'} \subseteq
             {p.product_id : p \in product} \cup (productSeq + 1 .. productSeq')]_vars

\* C19: every row of table product has a name and a price that are not NULL
\* and a quantity of at least 0.  Checked under SpecUpdate.  The table has no
\* CHECK constraint and no handler tests the sign of quantity.
C19_RowsWellFormed ==
    \A p \in product :
        /\ p.product_name # NULLSTR
        /\ p.price # NULLNUM
        /\ p.quantity # NULLNUM
        /\ p.quantity >= 0

\* C20: a POST /signup of src/app.js (and part_001) that passes the readiness
\* gate answers 400 when the username or the password is missing or the
\* password has fewer than six characters, acquiring no connection, sending no
\* statement and creating no user row; with a username and a password of six
\* characters or more it goes on to the connection and, unless that fails, to
\* the INSERT.  Checked under SpecUsers.
C20_SignupValidation ==
    [][(HasReadinessGate /\ last'.route = "POST /signup" /\ last'.entered) =>
          LET username == last'.body.username
              password == last'.body.password
          IN IF \/ username = NULLSTR
                \/ password = NULLSTR
                \/ Len(password) < 6
             THEN /\ last'.status = 400
                  /\ last'.acquired = 0
                  /\ last'.queries = 0
                  /\ users' = users
                  /\ userSeq' = userSeq
                  /\ checkedOut' = checkedOut
             ELSE /\ last'.status # 400
                  /\ (last'.dbErr # "connect" =>
                        last'.acquired = 1 /\ last'.queries = 1)]_vars

\* C20 happens: a signup with a five-character password is answered 400
\* WEAK_PASSWORD and the table has no row for the username.
C20_Witness ==
    /\ HasReadinessGate
    /\ last.route = "POST /signup"
    /\ last.body.username = "bob"
    /\ last.body.password = "short"
    /\ last.status = 400
    /\ last.error = "WEAK_PASSWORD"
    /\ UserByName("bob") = {}
    /\ isDBInitialized

\* the error codes of src/app.js and part_001
ErrorCodes ==
    {"MISSING_TOKEN", "INVALID_TOKEN", "TOKEN_EXPIRED", "MISSING_FIELDS",
     "WEAK_PASSWORD", "DUPLICATE_USERNAME", "SIGNUP_FAILED", "INVALID_CREDENTIALS",
     "LOGIN_FAILED", "FETCH_USERS_FAILED", "USER_NOT_FOUND", "FETCH_USER_FAILED",
     "FETCH_PRODUCTS_FAILED", "PRODUCT_NOT_FOUND", "FETCH_PRODUCT_FAILED",
     "INVALID_FORMAT", "CREATE_PRODUCTS_FAILED", "UPDATE_PRODUCT_FAILED",
     "DELETE_PRODUCT_FAILED", "DATABASE_CONSTRAINT_ERROR", "INTERNAL_SERVER_ERROR",
     "ROUTE_NOT_FOUND"}

\* C21: on the servers with error codes (src/app.js, part_001) every response
\* with a status of 400 or more carries an error code of the fixed set.
\* Checked under Spec.  The 503 of checkDatabaseAvailability has no error
\* field, and the 500 of GET /health puts the exception text in it.
C21_ErrorsCarryCode ==
    (HasReadinessGate /\ last.status >= 400) => last.error \in ErrorCodes

\* C22: in production no response of src/app.js or part_001 with a status of
\* 400 or more carries the text of the underlying exception.
\* Checked under SpecErrors.  The 500 of POST /products sends
\* details: err.message whatever NODE_ENV is; the error-handling middleware
\* at the end of the chain does test NODE_ENV.
C22_NoDetailsInProduction ==
    (HasReadinessGate /\ nodeEnv = "production" /\ last.status >= 400)
        => ~last.details

\* C23: the readiness flag is false until initDB settles; it becomes true only
\* in the step in which initDB's statement creating both tables succeeded; it
\* is written by that one step only, so after a failed creation it stays false
\* for ever, while the server goes on answering requests.
\* Checked under Spec.
C23_FlagWrittenOnce ==
    /\ [](initPending => ~isDBInitialized)
    /\ [][/\ isDBInitialized' # isDBInitialized
             => (initPending /\ ~initPending' /\ isDBInitialized'
                 /\ last'.route = "initDB" /\ last'.dbErr = "")
          /\ ~initPending => ~initPending'
          /\ (last'.route = "initDB" /\ last'.dbErr # "") => ~isDBInitialized']_vars

\* creation failed, and a later request was answered (503) with the flag false
C23_Witness ==
    /\ HasReadinessGate
    /\ ~initPending
    /\ ~isDBInitialized
    /\ last.route = "POST /signup"
    /\ last.status = 503

\* C24: a GET /products answered 200 lists every row of table product, newest
\* currentstamp first, and a GET /users answered 200 lists every user, newest
\* created_at first, on every server.  Checked under Spec.  The SELECT of
\* GET /products in src/unnamed/part_000 has no ORDER BY clause.
C24_NewestFirst ==
    /\ (last.route = "GET /products" /\ last.status = 200) =>
          /\ Range(last.data) = product
          /\ Len(last.data) = Cardinality(product)
          /\ OrderedProducts(last.data)
    /\ (last.route = "GET /users" /\ last.status = 200) =>
          /\ Range(last.data) = {UserColumns(u) : u \in users}
          /\ Len(last.data) = Cardinality(users)
          /\ OrderedUsers(last.data)

\* C25: a DELETE /products {ids} that the database executes deletes the rows
\* whose id is in ids, answers 200 with those rows and leaves every other row
\* as it was; a PUT /products [items] that the database executes answers 200
\* with one row per item whose id has a row, those rows carry the values of
\* their items, and the rows no item names are as before; ids without a row
\* do not fail either request.  Checked under SpecBulk.  The loop of
\* PUT /products stops at the first UPDATE the database refuses (an item
\* without product_name), after the items before it were committed.
C25_BulkItemsIndependent ==
    [][(/\ last'.route \in {"DELETE /products", "PUT /products"}
        /\ last'.entered
        /\ last'.dbErr \notin {"connect", "query"}) =>
          IF last'.route = "DELETE /products"
          THEN LET ids == Range(last'.body.ids)
                   gone == {p \in product : p.product_id \in ids}
               IN ids # {} =>
                    /\ last'.status = 200
                    /\ last'.data = gone
                    /\ product' = product \ gone
          ELSE LET items == last'.body.items
                   ids == {items[i].product_id : i \in DOMAIN items}
                   present == {p.product_id : p \in product} \cap ids
               IN items # <<>> =>
                    /\ last'.status = 200
                    /\ {last'.data[i].product_id : i \in DOMAIN last'.data} = present
                    /\ \A i \in DOMAIN items :
                          items[i].product_id \in present =>
                             \E j \in DOMAIN last'.data :
                                last'.data[j] = FullUpdate(RowOf(product, items[i].product_id),
                                                           items[i])
                    /\ {p \in product' : p.product_id \notin ids}
                          = {p \in product : p.product_id \notin ids}
                    /\ {p.product_id : p \in product'} = {p.product_id : p \in product}]_vars

\* C26: whatever the interleaving of the PUT and DELETE /product/:id requests
\* for one id, a request the database executes is answered 200 or 404; a PUT
\* answered 200 carries the row it stored; a DELETE answered 200 carries the
\* row it removed, so of several DELETEs for one row (ids are not handed out
\* twice) one is answered 200.  Checked under SpecRace.  The handlers look
\* for the row with a SELECT and then send the UPDATE or DELETE without
\* testing how many rows it matched.
C26_RaceAnswers ==
    [][(/\ last'.route \in {"PUT /product/:id", "DELETE /product/:id"}
        /\ last'.entered
        /\ last'.dbErr = "") =>
          /\ last'.status \in {200, 404}
          /\ last'.status = 200 =>
                /\ last'.data # <<>>
                /\ last'.data.product_id = last'.id
                /\ IF last'.route = "PUT /product/:id"
                   THEN last'.data \in product'
                   ELSE last'.data \in product /\ last'.data \notin product']_vars

\* C27: whatever the interleaving of the POST /signup requests of src/app.js
\* (and part_001), table users never holds two rows with one username; a
\* signup whose INSERT the database executes while a row with its username
\* exists is answered 409 DUPLICATE_USERNAME and adds no row, and a signup
\* answered 201 added the one row with its username: of the signups for one
\* username at most one is answered 201.  Checked under SpecSignups.
C27_ConcurrentSignup ==
    /\ [](\A u, v \in users : u.username = v.username => u = v)
    /\ [][(/\ last'.route = "POST /signup"
           /\ last'.entered
           /\ last'.body.password # NULLSTR
           /\ Len(last'.body.password) >= MIN_PASSWORD_LENGTH
           /\ last'.dbErr \notin {"connect", "query", "42703"}) =>
             IF \E u \in users : u.username = last'.body.username
             THEN /\ last'.status = 409
                  /\ last'.error = "DUPLICATE_USERNAME"
                  /\ users' = users
             ELSE /\ last'.status = 201
                  /\ Cardinality(users') = Cardinality(users) + 1
                  /\ \E u \in users' \ users : u.username = last'.body.username]_vars

\* C27 happens: of two signups for one username that were both waiting for
\* their INSERT, one has been answered 201 and the other is still waiting
C27_Witness ==
    /\ last.route = "POST /signup"
    /\ last.status = 201
    /\ \E c \in Clients :
          /\ pending[c].route = "POST /signup"
          /\ pending[c].body.username = last.body.username
          /\ pending[c].body.password # last.body.password

\* the ids a product mutation names
MutatedIds(request) ==
    IF request.route \in {"PUT /product/:id", "PATCH /product/:id"}
    THEN {request.id}
    ELSE IF request.route \in {"PUT /products", "PATCH /products"}
    THEN {request.body.items[i].product_id : i \in DOMAIN request.body.items}
    ELSE {}

\* C28: a PUT or PATCH of products answered 200 stamps every row it changes
\* with the server clock, no request lowers the currentstamp of a row, and a
\* GET /products answered 200 right after the mutation lists each row the
\* mutation stamped before every row with an older stamp.  Checked under Spec.
\* The stamps are as stated; GET /products of src/unnamed/part_000, the only
\* servers with PATCH, has no ORDER BY clause (the defect of C24).
C28_MutationStampsAndLeads ==
    [][/\ (MutatedIds(last') # {} /\ last'.status = 200) =>
             \A p \in product' \ product : p.currentstamp = now
       /\ \A p \in product, q \in product' :
             p.product_id = q.product_id => q.currentstamp >= p.currentstamp
       /\ (/\ MutatedIds(last) # {}
           /\ last.status = 200
           /\ last'.route = "GET /products"
           /\ last'.status = 200) =>
             \A i, j \in DOMAIN last'.data :
                (/\ last'.data[i].product_id \in MutatedIds(last)
                 /\ last'.data[i].currentstamp = now
                 /\ last'.data[j].currentstamp < now) => i < j]_vars

\* C29: every request whose handler has run to its end has been answered: the
\* response has a status.  Checked under SpecCreate, whose POST /products
\* includes a connection that cannot be acquired and a ROLLBACK that fails.
\* The catch block of POST /products awaits ROLLBACK before it answers; when
\* ROLLBACK throws, the handler ends without a response.
C29_HandlerAlwaysResponds ==
    last.entered => last.status # 0

\* C30: on each protected route of src/app.js (and part_001) the token gate
\* stands before the readiness gate: while the readiness flag is false a
\* request without a token is answered 401, one whose token is expired or does
\* not verify 403, and only a request with a valid token 503; none of them
\* enters the handler.  Checked under SpecGates.
C30_AuthBeforeReadiness ==
    [][(/\ HasReadinessGate
        /\ ~isDBInitialized
        /\ last'.route \in ProtectedRoutes) =>
          LET tok == last'.token
              signed == tok.sig = jwtSignature(tok.id, tok.username, tok.exp, JWT_SECRET)
          IN /\ ~last'.entered
             /\ last'.queries = 0
             /\ IF tok = NoToken THEN last'.status = 401
                ELSE IF ~signed \/ now >= tok.exp THEN last'.status = 403
                ELSE last'.status = 503]_vars

\* C30 happens: after initDB failed, a token issued before the restart and
\* not yet expired is answered 503 by GET /users
C30_Witness ==
    /\ ~initPending
    /\ ~isDBInitialized
    /\ last.route = "GET /users"
    /\ last.token = held
    /\ now < last.token.exp
    /\ last.status = 503

====
